---- MODULE Spec2Model ----
(***************************************************************************)
(* The `read` builtin of brush-core (src/brush-core/src/builtins/read.rs)  *)
(* as a state machine: ReadCommand::execute checks its options, calls      *)
(* read_line, which switches the terminal out of canonical mode, reads     *)
(* stdin one byte at a time and restores the terminal, and then splits the *)
(* line into the named variables and REPLY.                                *)
(*                                                                         *)
(* Bytes are their integer values; a `char` made by `byte as char` is the  *)
(* same integer.  Strings are sequences of such integers.  An Option is a  *)
(* sequence of length 0 (None) or 1 (Some).                                *)
(*                                                                         *)
(* The collaborator calls get_term_attr, set_term_attr and update_or_add   *)
(* (openfiles.rs, env.rs) are taken to return Ok; file.read may fail.      *)
(*                                                                         *)
(* The tokenizer, of which src/parser/src/lib.rs holds only the            *)
(* declaration, is modelled in the second half from spec.md sections 3,    *)
(* 4.1 and 5, under the specification SpecTok.                             *)
(***************************************************************************)
EXTENDS Integers, Sequences, FiniteSets, TLC

VARIABLES
    opts,            \* ReadCommand: the option letters given on the command line
    variable_names,  \* ReadCommand.variable_names
    term,            \* the terminal attributes of stdin (None: not a terminal)
    term0,           \* history: term when execute was called
    pc,              \* position inside execute / read_line
    orig_term_attr,  \* read_line local
    line,            \* read_line local
    consumed,        \* history: the bytes file.read has delivered
    ended,           \* history: how the read loop ended
    set_calls,       \* history: number of set_term_attr calls
    input_line,      \* execute local: what read_line returned
    env,             \* context.shell.env, variable -> Option<value>
    writes,          \* history: the update_or_add calls, in order
    result,          \* what execute returned
    buffer,          \* tokenizer caller: the text accumulated so far
    tok_result,      \* tokenizer: what the last scan of buffer reported
    phase            \* tokenizer caller: typing, closing an open construct, or at end of input

readVars == <<opts, variable_names, term, term0, pc, orig_term_attr, line, consumed,
              ended, set_calls, input_line, env, writes, result>>

tokVars == <<buffer, tok_result, phase>>

vars == <<readVars, tokVars>>

----------------------------------------------------------------------------
(* Bounds *)

MaxOpts == 2       \* at most this many option letters on one command line
MaxNames == 2      \* at most this many variable names
MaxBytes == 3      \* at most this many bytes delivered before the one ending the read

----------------------------------------------------------------------------
(* Values *)

None == <<>>
Some(x) == <<x>>

CtrlC == 3
Tab == 9
Newline == 10
Space == 32

\* The bytes stdin may deliver: Ctrl+C, tab, newline, space, 'a', 'b'.
Bytes == {CtrlC, Tab, Newline, Space, 97, 98}

\* char::is_ascii_control: U+0000..U+001F and U+007F.
is_ascii_control(ch) == (ch >= 0 /\ ch <= 31) \/ ch = 127

\* u8::is_ascii_whitespace, which str::split_ascii_whitespace splits on:
\* space, tab, line feed, form feed, carriage return.
is_ascii_whitespace(ch) == ch \in {32, 9, 10, 12, 13}

\* Every option letter of ReadCommand.
AllOpts == {"a", "d", "e", "i", "n", "N", "p", "r", "s", "t", "u"}

\* The options execute rejects, in the order it tests them, without -t.
UnimpOrderNoT == <<"a", "d", "e", "i", "n", "N", "p", "u">>

\* The options execute rejects, in the order it tests them.
UnimpOrder == <<"a", "d", "e", "i", "n", "N", "p", "t", "u">>

\* error::unimp(..)'s message for each rejected option.
UnimpName == [a |-> "read -a", d |-> "read -d", e |-> "read -e", i |-> "read -i",
              n |-> "read -n", N |-> "read -N", p |-> "read -p", t |-> "read -t",
              u |-> "read -u"]

\* The first `return error::unimp(..)` that execute reaches, if any.
FirstUnimp(o) ==
    LET idx == {i \in 1..Len(UnimpOrder) : UnimpOrder[i] \in o}
    IN  IF idx = {} THEN None
        ELSE Some(UnimpOrder[CHOOSE i \in idx : \A j \in idx : i <= j])

\* Terminal local flags: the three read_line touches and one it does not.
LocalFlags == {"ICANON", "ISIG", "ECHO", "ECHOE"}

\* Variable names a command line may give, and the variables of the shell.
Names == {"x", "y"}
ShellVars == Names \cup {"REPLY"}

RECURSIVE SeqsUpTo(_, _)
SeqsUpTo(S, n) ==
    IF n = 0 THEN {<<>>}
    ELSE LET shorter == SeqsUpTo(S, n - 1)
         IN  shorter \cup {Append(s, x) : s \in shorter, x \in S}

----------------------------------------------------------------------------
(* read_line *)

\* A mutation of updated_term_attr: ECHO is removed whether or not -s is given.
updated_term_attr_always_silent(orig, silent) == orig \ {"ICANON", "ISIG", "ECHO"}

\* The attributes read_line installs while it reads.
updated_term_attr(orig, silent) ==
    (orig \ {"ICANON", "ISIG"}) \ (IF silent THEN {"ECHO"} ELSE {})

\* A mutation of line_result: an empty line is returned as Some("").
line_result_keep_empty(l) == Some(l)

\* read_line's return value for the collected line.
line_result(l) == IF l = <<>> THEN None ELSE Some(l)

----------------------------------------------------------------------------
(* The field loop of execute *)

\* str::split_ascii_whitespace: the maximal runs of non-whitespace, in order.
RECURSIVE split_from(_, _, _)
split_from(s, cur, acc) ==
    IF s = <<>> THEN (IF cur = <<>> THEN acc ELSE Append(acc, cur))
    ELSE IF is_ascii_whitespace(Head(s))
         THEN split_from(Tail(s), <<>>, IF cur = <<>> THEN acc ELSE Append(acc, cur))
         ELSE split_from(Tail(s), Append(cur, Head(s)), acc)

split_ascii_whitespace(s) == split_from(s, <<>>, <<>>)

\* A mutation of pop_front: the name is taken from the back of the queue.
pop_back(q) == [item |-> q[Len(q)], rest |-> SubSeq(q, 1, Len(q) - 1)]

\* VecDeque::pop_front on a non-empty queue.
pop_front(q) == [item |-> Head(q), rest |-> Tail(q)]

\* A mutation of push_spill: the separating space is left out.
push_spill_no_space(s, field) == s \o field

\* s.push(' '); s.push_str(field)
push_spill(s, field) == (s \o <<Space>>) \o field

\* The `for field in ..` loop: the update_or_add calls it makes and the
\* spillover it ends with.
RECURSIVE field_loop(_, _, _, _)
field_loop(fields, names, spillover, w) ==
    IF fields = <<>> THEN [spillover |-> spillover, writes |-> w]
    ELSE LET field == Head(fields) IN
         IF names # <<>>
         THEN field_loop(Tail(fields), pop_front(names).rest, spillover,
                         Append(w, <<pop_front(names).item, field>>))
         ELSE field_loop(Tail(fields), names,
                         IF spillover = None THEN Some(field)
                         ELSE Some(push_spill(spillover[1], field)),
                         w)

\* Every update_or_add call of execute for one line, REPLY's last.
assignments(l, names) ==
    LET r == field_loop(split_ascii_whitespace(l), names, None, <<>>)
    IN  IF r.spillover = None THEN r.writes
        ELSE Append(r.writes, <<"REPLY", r.spillover[1]>>)

\* env.update_or_add applied for each call in turn.
RECURSIVE apply_writes(_, _)
apply_writes(e, w) ==
    IF w = <<>> THEN e
    ELSE apply_writes([e EXCEPT ![Head(w)[1]] = Some(Head(w)[2])], Tail(w))

----------------------------------------------------------------------------
(* The state machine *)

Pending == [kind |-> "Pending", val |-> ""]
Ok(v) == [kind |-> "Ok", val |-> v]
Err(v) == [kind |-> "Err", val |-> v]

Init ==
    /\ opts \in {o \in SUBSET AllOpts : Cardinality(o) <= MaxOpts}
    /\ variable_names \in SeqsUpTo(Names, MaxNames)
    /\ term \in {None} \cup {Some(f) : f \in SUBSET LocalFlags}
    /\ term0 = term
    /\ pc = "execute"
    /\ orig_term_attr = None
    /\ line = <<>>
    /\ consumed = <<>>
    /\ ended = "no"
    /\ set_calls = 0
    /\ input_line = None
    /\ env = [v \in ShellVars |-> None]
    /\ writes = <<>>
    /\ result = Pending
    /\ buffer = <<>>
    /\ tok_result = "none"
    /\ phase = "typing"

\* execute, lines 52-83: the option checks.
CheckOptions ==
    /\ pc = "execute"
    /\ IF FirstUnimp(opts) # None
       THEN /\ result' = Err(UnimpName[FirstUnimp(opts)[1]])
            /\ pc' = "done"
       ELSE /\ pc' = "read_line"
            /\ UNCHANGED result
    /\ UNCHANGED <<tokVars, opts, variable_names, term, term0, orig_term_attr, line, consumed,
                   ended, set_calls, input_line, env, writes>>

\* read_line, lines 126-147: save the attributes and leave canonical mode.
ReadLineBegin ==
    /\ pc = "read_line"
    /\ orig_term_attr' = term
    /\ IF term # None
       THEN /\ term' = Some(updated_term_attr(term[1], "s" \in opts))
            /\ set_calls' = set_calls + 1
       ELSE UNCHANGED <<term, set_calls>>
    /\ line' = <<>>
    /\ pc' = "reading"
    /\ UNCHANGED <<tokVars, opts, variable_names, term0, consumed, ended, input_line, env,
                   writes, result>>

\* read_line, lines 150-171: file.read delivers one byte.
ReadByte ==
    /\ pc = "reading"
    /\ \E ch \in Bytes :
        /\ (ch \in {CtrlC, Newline} \/ Len(consumed) < MaxBytes)
        /\ consumed' = Append(consumed, ch)
        /\ IF ch = CtrlC
           THEN \* return Ok(None)
                /\ ended' = "ctrlc"
                /\ input_line' = None
                /\ pc' = "assign"
                /\ UNCHANGED line
           ELSE IF ch = Newline
           THEN /\ ended' = "newline"
                /\ pc' = "restore"
                /\ UNCHANGED <<line, input_line>>
           ELSE IF is_ascii_control(ch)
           THEN UNCHANGED <<line, ended, input_line, pc>>
           ELSE /\ line' = Append(line, ch)
                /\ UNCHANGED <<ended, input_line, pc>>
    /\ UNCHANGED <<tokVars, opts, variable_names, term, term0, orig_term_attr, set_calls, env,
                   writes, result>>

\* read_line, lines 150-153: file.read returns Ok(0).
ReadEof ==
    /\ pc = "reading"
    /\ ended' = "eof"
    /\ pc' = "restore"
    /\ UNCHANGED <<tokVars, opts, variable_names, term, term0, orig_term_attr, line, consumed,
                   set_calls, input_line, env, writes, result>>

\* read_line, line 150: file.read returns Err, which ends the `while let`.
ReadError ==
    /\ pc = "reading"
    /\ ended' = "error"
    /\ pc' = "restore"
    /\ UNCHANGED <<tokVars, opts, variable_names, term, term0, orig_term_attr, line, consumed,
                   set_calls, input_line, env, writes, result>>

\* read_line, lines 173-181: restore the attributes and return the line.
ReadLineEnd ==
    /\ pc = "restore"
    /\ IF orig_term_attr # None
       THEN /\ term' = orig_term_attr
            /\ set_calls' = set_calls + 1
       ELSE UNCHANGED <<term, set_calls>>
    /\ input_line' = line_result(line)
    /\ pc' = "assign"
    /\ UNCHANGED <<tokVars, opts, variable_names, term0, orig_term_attr, line, consumed, ended,
                   env, writes, result>>

\* execute, lines 84-120: assign the fields and return the exit code.
AssignFields ==
    /\ pc = "assign"
    /\ IF input_line # None
       THEN LET w == assignments(input_line[1], variable_names) IN
            /\ writes' = w
            /\ env' = apply_writes(env, w)
            /\ result' = Ok("Success")
       ELSE /\ result' = Ok("Custom(1)")
            /\ UNCHANGED <<env, writes>>
    /\ pc' = "done"
    /\ UNCHANGED <<tokVars, opts, variable_names, term, term0, orig_term_attr, line, consumed,
                   ended, set_calls, input_line>>

Next ==
    \/ CheckOptions
    \/ ReadLineBegin
    \/ ReadByte
    \/ ReadEof
    \/ ReadError
    \/ ReadLineEnd
    \/ AssignFields

Spec == Init /\ [][Next]_vars

----------------------------------------------------------------------------
(* The tokenizer's quote state (spec.md 3, 4.1) and its incremental use    *)
(* (spec.md 5).                                                           *)

MaxBuf == 4        \* at most this many characters typed by the caller

\* The characters, by name: single quote, double quote, backquote, backslash,
\* newline, and the redirection <<E taken as one character.
SQuote == "squote"
DQuote == "dquote"
BQuote == "backquote"
BSlash == "backslash"
NL == "newline"
HereE == "heredoc-E"

Chars == {"a", "E", SQuote, DQuote, BQuote, BSlash, NL, HereE}

\* The scan state: the quote-state stack (innermost last), a pending
\* backslash, the heredocs whose body has not begun, and, inside a heredoc
\* body, whether the current line is so far empty, equal to E, or neither.
ScanStart == [stack |-> <<>>, esc |-> FALSE, pending |-> 0, hline |-> "start"]

Top(st) == IF st.stack = <<>> THEN "unquoted" ELSE st.stack[Len(st.stack)]
Push(st, q) == [st EXCEPT !.stack = Append(@, q)]
Pop(st) == [st EXCEPT !.stack = SubSeq(@, 1, Len(@) - 1)]

\* One step of the left-to-right scan.
scan_char(st, c) ==
    CASE Top(st) = "heredoc" ->
           \* lines are read verbatim until a line equal to the delimiter
           IF c = NL
           THEN IF st.hline = "match" THEN [Pop(st) EXCEPT !.hline = "start"]
                ELSE [st EXCEPT !.hline = "start"]
           ELSE IF c = "E" /\ st.hline = "start" THEN [st EXCEPT !.hline = "match"]
           ELSE [st EXCEPT !.hline = "other"]
      [] Top(st) = "single" ->
           \* no character is special except the closing quote
           IF c = SQuote THEN Pop(st) ELSE st
      [] Top(st) \notin {"heredoc", "single"} /\ st.esc ->
           \* the escaped character is literal; backslash-newline is elided
           [st EXCEPT !.esc = FALSE]
      [] Top(st) = "double" /\ ~st.esc ->
           IF c = DQuote THEN Pop(st)
           ELSE IF c = BSlash THEN [st EXCEPT !.esc = TRUE]
           ELSE IF c = BQuote THEN Push(st, "backtick")
           ELSE st
      [] Top(st) = "backtick" /\ ~st.esc ->
           IF c = BQuote THEN Pop(st)
           ELSE IF c = SQuote THEN Push(st, "single")
           ELSE IF c = DQuote THEN Push(st, "double")
           ELSE IF c = BSlash THEN [st EXCEPT !.esc = TRUE]
           ELSE st
      [] Top(st) = "unquoted" /\ ~st.esc ->
           IF c = SQuote THEN Push(st, "single")
           ELSE IF c = DQuote THEN Push(st, "double")
           ELSE IF c = BQuote THEN Push(st, "backtick")
           ELSE IF c = BSlash THEN [st EXCEPT !.esc = TRUE]
           ELSE IF c = HereE THEN [st EXCEPT !.pending = @ + 1]
           ELSE IF c = NL /\ st.pending > 0
                THEN [st EXCEPT !.stack = [i \in 1..st.pending |-> "heredoc"],
                                !.pending = 0, !.hline = "start"]
           ELSE st

\* The scan state at the end of a buffer.
RECURSIVE scan_from(_, _)
scan_from(st, buf) ==
    IF buf = <<>> THEN st ELSE scan_from(scan_char(st, Head(buf)), Tail(buf))

scan(buf) == scan_from(ScanStart, buf)

\* The quote state is open: a quote or heredoc body is open, or a heredoc is
\* pending.
Open(st) == st.stack # <<>> \/ st.pending > 0

\* A mutation of tokenize: an open quote state fails at the end of any buffer.
tokenize_fail_at_buffer_end(buf, at_end) ==
    IF Open(scan(buf)) THEN "UnterminatedQuoteOrHeredoc" ELSE "Complete"

\* What the tokenizer reports for a buffer: at the end of the buffer, or at
\* the permanent end of input.
tokenize(buf, at_end) ==
    IF ~Open(scan(buf)) THEN "Complete"
    ELSE IF at_end THEN "UnterminatedQuoteOrHeredoc"
    ELSE "NeedMoreInput"

\* The text a caller appends to close what is open, innermost first.
next_closer(st) ==
    CASE Top(st) = "heredoc" -> IF st.hline = "start" THEN "E" ELSE NL
      [] Top(st) = "single" -> SQuote
      [] Top(st) \notin {"heredoc", "single"} /\ st.esc -> "a"
      [] Top(st) = "double" /\ ~st.esc -> DQuote
      [] Top(st) = "backtick" /\ ~st.esc -> BQuote
      [] Top(st) = "unquoted" /\ ~st.esc -> NL

RECURSIVE closing_text(_)
closing_text(st) ==
    IF ~Open(st) THEN <<>>
    ELSE <<next_closer(st)>> \o closing_text(scan_char(st, next_closer(st)))

\* The read builtin is not running.
ReadIdle ==
    /\ opts = {}
    /\ variable_names = <<>>
    /\ term = None
    /\ term0 = None
    /\ pc = "idle"
    /\ orig_term_attr = None
    /\ line = <<>>
    /\ consumed = <<>>
    /\ ended = "no"
    /\ set_calls = 0
    /\ input_line = None
    /\ env = [v \in ShellVars |-> None]
    /\ writes = <<>>
    /\ result = Pending

InitTok ==
    /\ ReadIdle
    /\ buffer = <<>>
    /\ tok_result = "none"
    /\ phase = "typing"

\* The caller accumulates one more character.
TypeChar ==
    /\ phase # "ended"
    /\ Len(buffer) < MaxBuf
    /\ \E c \in Chars : buffer' = Append(buffer, c)
    /\ tok_result' = "none"
    /\ phase' = "typing"
    /\ UNCHANGED readVars

\* The caller has the buffer tokenized; more input may follow.
Tokenize ==
    /\ phase # "ended"
    /\ tok_result = "none"
    /\ tok_result' = tokenize(buffer, FALSE)
    /\ UNCHANGED <<readVars, buffer, phase>>

\* On NeedMoreInput the caller appends the text that closes what is open.
AppendClosing ==
    /\ phase # "ended"
    /\ tok_result = "NeedMoreInput"
    /\ buffer' = buffer \o closing_text(scan(buffer))
    /\ tok_result' = "none"
    /\ phase' = "closed"
    /\ UNCHANGED readVars

\* The input ends for good, and the buffer is tokenized as it stands.
EndOfInput ==
    /\ phase # "ended"
    /\ phase' = "ended"
    /\ tok_result' = tokenize(buffer, TRUE)
    /\ UNCHANGED <<readVars, buffer>>

NextTok ==
    \/ TypeChar
    \/ Tokenize
    \/ AppendClosing
    \/ EndOfInput

SpecTok == InitTok /\ [][NextTok]_vars

----------------------------------------------------------------------------
(* Properties of execute *)

\* The options execute does not implement, as a set.
Unimplemented == {"a", "d", "e", "i", "n", "N", "p", "t", "u"}

\* The line execute works on: read_line's Some(line), or no text at all.
TheLine == IF input_line = None THEN <<>> ELSE input_line[1]

\* The fields of a line, stated by position: <<s, e>> is a field of l when
\* l[s..e] holds no whitespace and cannot be extended to either side.
FieldRuns(l) ==
    {r \in (1..Len(l)) \X (1..Len(l)) :
        /\ r[1] <= r[2]
        /\ \A k \in r[1]..r[2] : l[k] \notin {9, 10, 12, 13, 32}
        /\ (r[1] = 1 \/ l[r[1] - 1] \in {9, 10, 12, 13, 32})
        /\ (r[2] = Len(l) \/ l[r[2] + 1] \in {9, 10, 12, 13, 32})}

NumFields(l) == Cardinality(FieldRuns(l))

\* The i-th field from the left.
NthField(l, i) ==
    LET r == CHOOSE q \in FieldRuns(l) :
                 Cardinality({p \in FieldRuns(l) : p[1] < q[1]}) = i - 1
    IN  SubSeq(l, r[1], r[2])

Min(a, b) == IF a <= b THEN a ELSE b

\* Fields i..n of l joined by one space each.
RECURSIVE JoinFields(_, _, _)
JoinFields(l, i, n) ==
    IF i = n THEN NthField(l, i)
    ELSE (NthField(l, i) \o <<32>>) \o JoinFields(l, i + 1, n)

Cex_C2_TabSeparates ==
    ( /\ pc = "done"
      /\ variable_names = <<"x", "y">>
      /\ consumed \in {<<97, Tab, 98, Newline>>, <<97, Space, 98, Newline>>} )
    => (env["x"] = Some(<<97>>) /\ env["y"] = Some(<<98>>))

\* C3: with an unimplemented option given, execute returns the not-implemented
\* error naming such an option, and no byte has been read, set_term_attr has
\* not been called, the terminal and every variable are as they were; with no
\* such option (-r or -s at most) execute never returns an error.
Thm_C3_UnimplementedFirst ==
    /\ (opts \cap Unimplemented # {} /\ pc # "execute") =>
          /\ pc = "done"
          /\ result.kind = "Err"
          /\ \E o \in opts \cap Unimplemented : result.val = UnimpName[o]
          /\ consumed = <<>>
          /\ ended = "no"
          /\ set_calls = 0
          /\ term = term0
          /\ writes = <<>>
          /\ \A v \in ShellVars : env[v] = None
    /\ (opts \cap Unimplemented = {}) =>
          /\ result.kind # "Err"
          /\ pc = "done" => result.kind = "Ok"

Wit_C3_TimeoutOptionRejected ==
    /\ pc = "done"
    /\ opts = {"t", "r"}
    /\ result = Err("read -t")

\* C4: while read_line reads from a terminal, ICANON and ISIG are off, ECHO is
\* off if -s was given and otherwise as it was, and every other flag is as it
\* was; on a file that is not a terminal set_term_attr is never called.
Thm_C4_TermModeWhileReading ==
    /\ (pc = "reading" /\ term0 # None) =>
          /\ term # None
          /\ "ICANON" \notin term[1]
          /\ "ISIG" \notin term[1]
          /\ ("s" \in opts) => "ECHO" \notin term[1]
          /\ ("s" \notin opts) => ("ECHO" \in term[1] <=> "ECHO" \in term0[1])
          /\ \A f \in LocalFlags \ {"ICANON", "ISIG", "ECHO"} :
                f \in term[1] <=> f \in term0[1]
    /\ (term0 = None) => (set_calls = 0 /\ term = None)

Wit_C4_ReadingWithEcho ==
    /\ pc = "reading"
    /\ term0 = Some({"ICANON", "ISIG", "ECHO", "ECHOE"})
    /\ "s" \notin opts
    /\ term = Some({"ECHO", "ECHOE"})
    /\ Len(consumed) > 0

\* C6: when read_line has returned on a terminal, the terminal attributes are
\* those in effect when it was called, however the read ended.
Cex_C6_TermRestored ==
    (pc = "assign" /\ term0 # None) => term = term0

Wit_C7_NoNames ==
    /\ pc = "done"
    /\ variable_names = <<>>
    /\ consumed = <<97, Space, 98>>
    /\ ended = "eof"
    /\ env["REPLY"] = Some(<<97, Space, 98>>)

----------------------------------------------------------------------------
(* Properties of the tokenizer *)

\* The number of single quotes in a buffer.
RECURSIVE CountQuotes(_)
CountQuotes(buf) ==
    IF buf = <<>> THEN 0
    ELSE (IF Head(buf) = SQuote THEN 1 ELSE 0) + CountQuotes(Tail(buf))

\* C5: a buffer that ends with the quote state open is reported as
\* NeedMoreInput and never as an error; a buffer is reported complete only
\* when the quote-state stack is empty and no heredoc is pending; and once the
\* caller has appended the closing text, the retry reports the buffer complete.
Thm_C5_IncompleteThenComplete ==
    (phase # "ended" /\ tok_result # "none") =>
        /\ Open(scan(buffer)) => tok_result = "NeedMoreInput"
        /\ tok_result \in {"Complete", "NeedMoreInput"}
        /\ (tok_result = "Complete") =>
              (scan(buffer).stack = <<>> /\ scan(buffer).pending = 0)
        /\ (phase = "closed") => tok_result = "Complete"
        /\ (\A i \in 1..Len(buffer) : buffer[i] \in {"a", "E", SQuote}) =>
              ((tok_result = "NeedMoreInput") <=> (CountQuotes(buffer) % 2 = 1))

Wit_C5_HeredocClosedOnRetry ==
    /\ phase = "closed"
    /\ tok_result = "Complete"
    /\ buffer = <<HereE, NL, "a", NL, "E", NL>>

====
